---- MODULE Spec2Model ----
(***************************************************************************)
(* Model of the groundwater trend and availability analysis engine:        *)
(*   server/services/statisticalAnalysis  (Mann-Kendall test, Sen's slope) *)
(*   server/services/mlPredictionService  (feature extraction, ensemble)   *)
(*   server/services/analysisService      (calculateTrendAnalysis)         *)
(*                                                                         *)
(* Numbers.  JavaScript numbers are modelled exactly: a slope is a reduced *)
(* fraction <<num, den>> with den > 0, a sub-model score is an integer     *)
(* count of 1/Scale units, the ensemble score an integer count of          *)
(* 1/(5*Scale) units.  An optional value is <<>> (undefined) or <<v>>.     *)
(***************************************************************************)
EXTENDS Integers, Sequences, FiniteSets, TLC

VARIABLES
    data,          \* values handed to the trend analyzer, in the caller's order
    timestamps,    \* their timestamps in seconds, same order
    trendPc,       \* "input" | "mk" | "sen": which trend function has been called
    trendResult,   \* what that call returned
    request,       \* argument object of predictGroundwaterLevel
    prediction,    \* outcome of predictGroundwaterLevel, NotCalled before the call
    readingStore,  \* the station's readings of the last year: timestamp -> level
    trendAnalysis, \* what calculateTrendAnalysis returned, NotCalled before
    call,          \* arguments of a call of one of the analysis service's functions
    returned       \* what that call returned, NotCalled before

vars == <<data, timestamps, trendPc, trendResult, request, prediction,
          readingStore, trendAnalysis, call, returned>>

trendVars == <<data, timestamps, trendPc, trendResult>>
predictVars == <<request, prediction>>
analysisVars == <<readingStore, trendAnalysis>>
callVars == <<call, returned>>

NoCall == [fn |-> "none"]

NotCalled == [called |-> FALSE]

(***************************************************************************)
(* Bounds of the explored inputs.                                          *)
(***************************************************************************)
MaxLen == 3        \* longest series handed over in arbitrary order
MaxVal == 3        \* water levels 0..MaxVal
MaxDay == 2        \* timestamps of such a series: days 0..MaxDay
MaxSpan == 4       \* a time-sorted series has its readings on days 0..MaxSpan
MaxReadings == 10  \* most readings a station has in the analysis window

\* Timestamps are held in seconds, the source's milliseconds / 1000, so that a
\* year of readings fits the integers: timeDiff = diff / (1000 * 60 * 60 * 24)
\* of the source is diff / SecPerDay here.
SecPerDay == 60 * 60 * 24

Values == 0..MaxVal
Timestamps == {d * SecPerDay : d \in 0..MaxDay}

Min(S) == CHOOSE x \in S : \A y \in S : x <= y

\* the elements of a finite set of integers in ascending order:
\* the order of a query sorted by { timestamp: 1 }
RECURSIVE Ascending(_)
Ascending(S) ==
    IF S = {} THEN <<>> ELSE <<Min(S)>> \o Ascending(S \ {Min(S)})

(***************************************************************************)
(* Exact fractions.                                                        *)
(***************************************************************************)
Abs(x) == IF x < 0 THEN -x ELSE x

RECURSIVE GCD(_, _)
GCD(a, b) == IF b = 0 THEN a ELSE GCD(b, a % b)

\* the fraction n/d, d # 0, in lowest terms with a positive denominator
Frac(n, d) ==
    LET g == GCD(Abs(n), Abs(d))
        s == IF d < 0 THEN -1 ELSE 1
    IN  <<(s * n) \div g, (s * d) \div g>>

FracLess(p, q) == p[1] * q[2] < q[1] * p[2]
FracAdd(p, q) == Frac(p[1] * q[2] + q[1] * p[2], p[2] * q[2])
FracHalf(p) == Frac(p[1], 2 * p[2])
Zero == <<0, 1>>

(***************************************************************************)
(* statisticalAnalysis: calculateSenSlope                                  *)
(***************************************************************************)
\* the pairs (i, j), i < j, in the order the nested loops visit them:
\* the rest of row i from column j, then the rows after it
RECURSIVE PairsFrom(_, _, _)
PairsFrom(i, j, n) ==
    IF i >= n THEN <<>>
    ELSE [k \in 1..(n - j + 1) |-> <<i, j + k - 1>>] \o PairsFrom(i + 1, i + 2, n)

Pairs(n) == PairsFrom(1, 2, n)

\* timeDiff of a pair, in days
TimeDiff(ts, i, j) == Frac(ts[j] - ts[i], SecPerDay)

\* slope of one pair: (data[j] - data[i]) / timeDiff
PairSlopeSwapped(d, ts, i, j) ==
    LET td == TimeDiff(ts, i, j) IN Frac(td[1], (d[j] - d[i]) * td[2])

PairSlope(d, ts, i, j) ==
    LET td == TimeDiff(ts, i, j) IN Frac((d[j] - d[i]) * td[2], td[1])

\* slopes pushed by the loops: only pairs with timeDiff > 0; the pairs are
\* visited in order, taken half by half
RECURSIVE SlopesOf(_, _, _)
SlopesOf(d, ts, ps) ==
    IF ps = <<>> THEN <<>>
    ELSE IF Len(ps) = 1
    THEN LET i == ps[1][1]
             j == ps[1][2]
         IN  IF FracLess(Zero, TimeDiff(ts, i, j))
             THEN <<PairSlope(d, ts, i, j)>>
             ELSE <<>>
    ELSE LET half == Len(ps) \div 2
         IN  SlopesOf(d, ts, SubSeq(ps, 1, half))
             \o SlopesOf(d, ts, SubSeq(ps, half + 1, Len(ps)))

\* slopes.sort((a, b) => a - b): each slope goes to the position given by
\* the number of slopes that sort before it (equal slopes keep their order)
SortSlopes(s) ==
    LET n == Len(s)
        position == <<>> \o [k \in 1..n |->
                                1 + Cardinality({m \in 1..n :
                                                    \/ FracLess(s[m], s[k])
                                                    \/ (s[m] = s[k] /\ m < k)})]
    IN  <<>> \o [p \in 1..n |-> s[CHOOSE k \in 1..n : position[k] = p]]

\* an estimator that reports the lowest pairwise slope instead of the median
calculateSenSlopeLowest(d, ts) ==
    LET slopes == SortSlopes(SlopesOf(d, ts, Pairs(Len(d))))
    IN  IF Len(slopes) = 0 THEN Zero ELSE slopes[1]

calculateSenSlope(d, ts) ==
    LET slopes == SortSlopes(SlopesOf(d, ts, Pairs(Len(d))))
        medianIndex == Len(slopes) \div 2      \* 0-based, as in the source
    IN  IF Len(slopes) = 0 THEN Zero
        ELSE IF Len(slopes) % 2 = 0
             THEN FracHalf(FracAdd(slopes[medianIndex], slopes[medianIndex + 1]))
             ELSE slopes[medianIndex + 1]

(***************************************************************************)
(* statisticalAnalysis: calculateMannKendallTrend                          *)
(***************************************************************************)
Sign(x) == IF x > 0 THEN 1 ELSE IF x < 0 THEN -1 ELSE 0

RECURSIVE SumSigns(_, _)
SumSigns(d, ps) ==
    IF ps = <<>> THEN 0
    ELSE IF Len(ps) = 1 THEN Sign(d[ps[1][2]] - d[ps[1][1]])
    ELSE LET half == Len(ps) \div 2
         IN  SumSigns(d, SubSeq(ps, 1, half)) + SumSigns(d, SubSeq(ps, half + 1, Len(ps)))

RECURSIVE CountTies(_, _)
CountTies(d, ps) ==
    IF ps = <<>> THEN 0
    ELSE IF Len(ps) = 1 THEN (IF d[ps[1][2]] = d[ps[1][1]] THEN 1 ELSE 0)
    ELSE LET half == Len(ps) \div 2
         IN  CountTies(d, SubSeq(ps, 1, half)) + CountTies(d, SubSeq(ps, half + 1, Len(ps)))

\* S statistic accumulated by the nested loops
MKStatistic(d) == SumSigns(d, Pairs(Len(d)))
MKTies(d) == CountTies(d, Pairs(Len(d)))

\* a correction that takes 2(2n+5) off for every tied pair
Variance18PerTiedPair(n, ties) == (n * (n - 1) - 2 * ties) * (2 * n + 5)

\* 18 * variance = n(n-1)(2n+5) - ties
Variance18(n, ties) == n * (n - 1) * (2 * n + 5) - ties

\* 10000 * z^2 for the |Z| at which the approximated two-sided p-value,
\* 2 * (1 - normalCDF(|Z|)), falls to 0.1, 0.05, 0.01 and 0.001
ZSquaredAt ==
    [marginally_significant |-> 27055, significant |-> 38415,
     very_significant |-> 66349, highly_significant |-> 108278]

\* pValue < alpha, decided on Z^2 = (|S| - 1)^2 / variance
PValueBelow(S, v18, level) ==
    /\ S # 0
    /\ (Abs(S) - 1) * (Abs(S) - 1) * 18 * 10000 > ZSquaredAt[level] * v18

SignificanceOf(S, v18) ==
    IF PValueBelow(S, v18, "highly_significant") THEN "highly_significant"
    ELSE IF PValueBelow(S, v18, "very_significant") THEN "very_significant"
    ELSE IF PValueBelow(S, v18, "significant") THEN "significant"
    ELSE IF PValueBelow(S, v18, "marginally_significant") THEN "marginally_significant"
    ELSE "not_significant"

\* the band the p-value lies in; "1.0" is the literal of the short-series branch
PValueBand(S, v18) ==
    IF PValueBelow(S, v18, "highly_significant") THEN "<0.001"
    ELSE IF PValueBelow(S, v18, "very_significant") THEN "<0.01"
    ELSE IF PValueBelow(S, v18, "significant") THEN "<0.05"
    ELSE IF PValueBelow(S, v18, "marginally_significant") THEN "<0.1"
    ELSE ">=0.1"

DirectionOfInverted(S) == IF S > 0 THEN "falling" ELSE IF S < 0 THEN "rising" ELSE "stable"

DirectionOf(S) == IF S > 0 THEN "rising" ELSE IF S < 0 THEN "falling" ELSE "stable"

\* minimum series length of the Mann-Kendall test
MinTrendPoints == 3

InsufficientData ==
    [trend |-> Zero, direction |-> "stable",
     significance |-> "insufficient_data", pValue |-> "1.0"]

ComputedTrend(d, ts) ==
    LET n == Len(d)
        S == MKStatistic(d)
        ties == MKTies(d)
        v18 == Variance18(n, ties)
    IN  [trend |-> calculateSenSlope(d, ts),
         direction |-> DirectionOf(S),
         significance |-> SignificanceOf(S, v18),
         pValue |-> PValueBand(S, v18),
         S |-> S,
         variance18 |-> v18,
         dataPoints |-> n]

calculateMannKendallTrendNoGuard(d, ts) == ComputedTrend(d, ts)

calculateMannKendallTrend(d, ts) ==
    IF Len(d) < MinTrendPoints THEN InsufficientData ELSE ComputedTrend(d, ts)

(***************************************************************************)
(* Optional values and the || operator of the source.                      *)
(***************************************************************************)
Undefined == <<>>
Some(v) == <<v>>
IsDefined(o) == o # Undefined

\* a read that passes the missing value on instead of a default
WithoutDefault(o, dflt) == IF o = Undefined THEN Undefined ELSE o[1]

\* o || dflt, o a number or undefined: 0 is falsy as undefined is
OrDefault(o, dflt) == IF o = Undefined \/ o[1] = 0 THEN dflt ELSE o[1]

\* map[label] || dflt: an unlisted label and a label mapped to 0 give dflt
Encode(map, label, dflt) ==
    IF label # Undefined /\ label[1] \in DOMAIN map /\ map[label[1]] # 0
    THEN map[label[1]]
    ELSE dflt

(***************************************************************************)
(* mlPredictionService: feature encoding                                   *)
(***************************************************************************)
statusMap == [critical |-> 0, low |-> 1, moderate |-> 2, good |-> 3, excellent |-> 4]
trendMap == [falling |-> -1, stable |-> 0, rising |-> 1]
sigMap == [not_significant |-> 0, marginally_significant |-> 1, significant |-> 2,
           very_significant |-> 3, highly_significant |-> 4]
influenceMap == [low |-> 1, medium |-> 2, high |-> 3]
permMap == [low |-> 1, medium |-> 2, high |-> 3]
aquiferMap ==
    "unconfined" :> 1 @@ "confined" :> 2 @@ "semi-confined" :> 3 @@ "leaky" :> 4

getStatusValue(status) == Encode(statusMap, status, 2)
getTrendValue(trend) == Encode(trendMap, trend, 0)
getSignificanceValue(significance) == Encode(sigMap, significance, 0)
getInfluenceValue(influence) == Encode(influenceMap, influence, 1)
getPermeabilityValue(permeability) == Encode(permMap, permeability, 2)
getAquiferTypeValue(aquiferType) == Encode(aquiferMap, aquiferType, 1)

(***************************************************************************)
(* mlPredictionService: extractFeatures                                    *)
(* The argument's stationData, environmentalData and trendAnalysis, and    *)
(* stationData.station, are read without a guard: reading a property of an *)
(* undefined one throws a TypeError.                                       *)
(***************************************************************************)
ExtractThrows(req) ==
    \/ req.stationData = Undefined
    \/ req.trendAnalysis = Undefined
    \/ req.environmentalData = Undefined
    \/ req.stationData[1].station = Undefined

\* Math.abs(trendAnalysis.trend || 0)
TrendMagnitude(trend) ==
    IF trend = Undefined \/ trend[1][1] = 0 THEN Zero
    ELSE <<Abs(trend[1][1]), trend[1][2]>>

FeaturesOf(req) ==
    LET st == req.stationData[1]
        env == req.environmentalData[1]
        tr == req.trendAnalysis[1]
        hasReading == IsDefined(st.latestReading)
        hasRain == IsDefined(env.rainfall)
        hasProx == IsDefined(env.proximity)
        hasGeo == IsDefined(env.geology)
        hasTech == IsDefined(st.station[1].technicalDetails)
    IN  [latitude |-> req.latitude,
         longitude |-> req.longitude,
         distance_to_station |-> st.distance,
         current_water_level |->
             IF hasReading THEN st.latestReading[1].waterLevel ELSE 15,
         water_level_status |->
             IF hasReading THEN getStatusValue(st.latestReading[1].waterLevelStatus)
             ELSE 2,
         trend_direction |-> getTrendValue(tr.direction),
         trend_significance |-> getSignificanceValue(tr.significance),
         trend_magnitude |-> TrendMagnitude(tr.trend),
         annual_rainfall |->
             IF hasRain THEN OrDefault(env.rainfall[1].annual, 0) ELSE 800,
         monsoon_rainfall |->
             IF hasRain THEN OrDefault(env.rainfall[1].monsoon, 0) ELSE 600,
         rainfall_trend |->
             IF hasRain THEN getTrendValue(env.rainfall[1].trend) ELSE 0,
         nearest_river_distance |->
             IF hasProx THEN OrDefault(env.proximity[1].riverDistance, 50) ELSE 50,
         nearest_waterbody_distance |->
             IF hasProx THEN OrDefault(env.proximity[1].waterBodyDistance, 50) ELSE 50,
         river_influence |->
             IF hasProx THEN getInfluenceValue(env.proximity[1].riverInfluence) ELSE 1,
         soil_permeability |->
             IF hasGeo THEN getPermeabilityValue(env.geology[1].permeability) ELSE 2,
         aquifer_depth |->
             IF hasGeo THEN OrDefault(env.geology[1].depth, 20) ELSE 20,
         well_depth |->
             IF hasTech THEN OrDefault(st.station[1].technicalDetails[1].wellDepth, 30)
             ELSE 30,
         aquifer_type |->
             IF hasTech
             THEN getAquiferTypeValue(st.station[1].technicalDetails[1].aquiferType)
             ELSE 1]

extractFeatures(req) ==
    IF ExtractThrows(req) THEN [threw |-> TRUE]
    ELSE [threw |-> FALSE, features |-> FeaturesOf(req)]

(***************************************************************************)
(* mlPredictionService: the three sub-models and the ensemble.             *)
(* A sub-model score s is held as the integer s * Scale; every weight of   *)
(* the source times Scale is an integer.                                   *)
(***************************************************************************)
Scale == 4000

Max2(a, b) == IF a > b THEN a ELSE b
Min2(a, b) == IF a < b THEN a ELSE b
Clamp100(x) == Max2(0, Min2(100 * Scale, x))

\* 50 + sum of weight * feature, weights -2.5, 0.05, 0.08, -0.3, 15, 10, 5
LinearSum(f) ==
    50 * Scale
    - 10000 * f.current_water_level
    + 200 * f.annual_rainfall
    + 320 * f.monsoon_rainfall
    - 1200 * f.nearest_river_distance
    + 15 * Scale * f.soil_permeability
    + 10 * Scale * f.trend_direction
    + 5 * Scale * f.trend_significance

calculateLinearAvailabilityUnclamped(f) == LinearSum(f)

calculateLinearAvailability(f) == Clamp100(LinearSum(f))

calculateWeightedAvailability(f) ==
    LET waterLevelScore == Scale * Max2(0, 100 - f.current_water_level * 3)
        \* min(100, annual / 10 + monsoon / 8)
        rainfallScore == Min2(100 * Scale,
                              (Scale \div 10) * f.annual_rainfall
                              + (Scale \div 8) * f.monsoon_rainfall)
        proximityScore == Scale * Max2(0, 100 - f.nearest_river_distance * 2)
        permeabilityScore == Scale * f.soil_permeability * 25
        \* weights 0.4, 0.25, 0.2, 0.15 as 8/20, 5/20, 4/20, 3/20
        weightedSum20 == 8 * waterLevelScore + 5 * rainfallScore
                         + 4 * proximityScore + 3 * permeabilityScore
        totalWeight20 == 8 + 5 + 4 + 3
    IN  weightedSum20 \div totalWeight20

calculateTrendBasedAvailability(f) ==
    LET direction == IF f.trend_direction = 1 THEN 20
                     ELSE IF f.trend_direction = -1 THEN -20 ELSE 0
        significance == f.trend_significance * 10
        \* trend_magnitude > 0.5
        magnitude == IF 2 * f.trend_magnitude[1] > f.trend_magnitude[2]
                     THEN f.trend_direction * 15 ELSE 0
    IN  Clamp100((50 + direction + significance + magnitude) * Scale)

\* 0.4 * linear + 0.4 * weighted + 0.2 * trend, in units of 1 / (5 * Scale)
EnsembleScore(linearScore, weightedScore, trendScore) ==
    2 * linearScore + 2 * weightedScore + trendScore

EnsembleUnit == 5 * Scale

\* Math.round of a non-negative ensemble score
RoundScore(e) == (2 * e + EnsembleUnit) \div (2 * EnsembleUnit)

StatusOf(e) ==
    IF e >= 80 * EnsembleUnit THEN "excellent"
    ELSE IF e >= 60 * EnsembleUnit THEN "good"
    ELSE IF e >= 40 * EnsembleUnit THEN "moderate"
    ELSE IF e >= 20 * EnsembleUnit THEN "low"
    ELSE "critical"

ReadingConfidenceAbove80(st) ==
    /\ IsDefined(st.latestReading)
    /\ IsDefined(st.latestReading[1].metadataConfidence)
    /\ st.latestReading[1].metadataConfidence[1] > 80

ConfidenceSum(f, st) ==
    50
    + (IF IsDefined(st.latestReading) THEN 20 ELSE 0)
    + (IF f.annual_rainfall > 0 THEN 10 ELSE 0)
    + (IF f.nearest_river_distance < 20 THEN 10 ELSE 0)
    + (IF f.trend_significance > 2 THEN 10 ELSE 0)
    + (IF st.distance < 10 THEN 10 ELSE 0)
    + (IF ReadingConfidenceAbove80(st) THEN 10 ELSE 0)

calculatePredictionConfidencePenalised(f, st) ==
    Min2(100, ConfidenceSum(f, st) - (IF st.distance < 10 THEN 20 ELSE 0))

calculatePredictionConfidence(f, st) == Min2(100, ConfidenceSum(f, st))

Fallback ==
    [called |-> TRUE, threw |-> FALSE,
     availability |-> [score |-> 50, status |-> "moderate"],
     confidence |-> 30,
     features |-> {"fallback"}]

Scored(req) ==
    LET f == extractFeatures(req).features
        linearScore == calculateLinearAvailability(f)
        weightedScore == calculateWeightedAvailability(f)
        trendScore == calculateTrendBasedAvailability(f)
        ensembleScore == EnsembleScore(linearScore, weightedScore, trendScore)
    IN  [called |-> TRUE, threw |-> FALSE,
         availability |-> [score |-> RoundScore(ensembleScore),
                           status |-> StatusOf(ensembleScore)],
         confidence |-> calculatePredictionConfidence(f, req.stationData[1]),
         features |-> DOMAIN f,
         modelDetails |-> [linearScore |-> linearScore,
                           weightedScore |-> weightedScore,
                           trendScore |-> trendScore,
                           ensembleScore |-> ensembleScore]]

\* the same body without the try/catch: the TypeError reaches the caller
predictGroundwaterLevelNoCatch(req) ==
    IF extractFeatures(req).threw THEN [called |-> TRUE, threw |-> TRUE]
    ELSE Scored(req)

predictGroundwaterLevel(req) ==
    IF extractFeatures(req).threw THEN Fallback ELSE Scored(req)

(***************************************************************************)
(* analysisService: calculateTrendAnalysis                                 *)
(* store: the station's active readings of the last 365 days, as a         *)
(* function from the day of the timestamp to the water level.              *)
(***************************************************************************)
\* Reading.getReadingsInRange: the readings sorted by { timestamp: 1 }
getReadingsInRange(store) ==
    LET order == Ascending(DOMAIN store)
    IN  [k \in 1..Len(order) |->
            [timestamp |-> order[k] * SecPerDay, waterLevel |-> store[order[k]]]]

\* fewest readings for which the analysis runs the Mann-Kendall test
MinAnalysisReadings == 10

TrendAnalysisOf(readings) ==
    LET waterLevels == [k \in 1..Len(readings) |-> readings[k].waterLevel]
        stamps == [k \in 1..Len(readings) |-> readings[k].timestamp]
        mkResult == calculateMannKendallTrend(waterLevels, stamps)
    IN  [called |-> TRUE,
         trend |-> mkResult.trend,
         significance |-> mkResult.significance,
         direction |-> mkResult.direction,
         pValue |-> mkResult.pValue,
         dataPoints |-> Len(readings),
         period |-> "1_year"]

\* the analysis relying on the analyzer's own guard alone
calculateTrendAnalysisUnguarded(store) == TrendAnalysisOf(getReadingsInRange(store))

calculateTrendAnalysis(store) ==
    LET readings == getReadingsInRange(store)
    IN  IF Len(readings) < MinAnalysisReadings
        THEN [called |-> TRUE, trend |-> Zero, significance |-> "insufficient_data",
              direction |-> "stable", pValue |-> "1.0"]
        ELSE TrendAnalysisOf(readings)

(***************************************************************************)
(* The trend analyzer called on one series.                                *)
(***************************************************************************)
IdleRequest ==
    [latitude |-> 0, longitude |-> 0, stationData |-> Undefined,
     environmentalData |-> Undefined, trendAnalysis |-> Undefined]
EmptyStore == [t \in {} |-> 0]

\* a series in whatever order the caller has it, timestamps possibly repeated
ArbitrarySeries ==
    \E n \in 0..MaxLen :
        /\ data \in [1..n -> Values]
        /\ timestamps \in [1..n -> Timestamps]

\* a series as a query sorted by timestamp delivers it
SortedSeries ==
    \E days \in SUBSET (0..MaxSpan) :
        \E level \in [days -> Values] :
            LET order == Ascending(days) IN
            /\ data = [k \in 1..Len(order) |-> level[order[k]]]
            /\ timestamps = [k \in 1..Len(order) |-> order[k] * SecPerDay]

InitTrend ==
    /\ ArbitrarySeries \/ SortedSeries
    /\ trendPc = "input"
    /\ trendResult = NotCalled
    /\ request = IdleRequest
    /\ prediction = NotCalled
    /\ readingStore = EmptyStore
    /\ trendAnalysis = NotCalled
    /\ call = NoCall
    /\ returned = NotCalled

CallMannKendall ==
    /\ trendPc = "input"
    /\ trendPc' = "mk"
    /\ trendResult' = calculateMannKendallTrend(data, timestamps)
    /\ UNCHANGED <<data, timestamps, predictVars, analysisVars, callVars>>

CallSenSlope ==
    /\ trendPc = "input"
    /\ trendPc' = "sen"
    /\ trendResult' = calculateSenSlope(data, timestamps)
    /\ UNCHANGED <<data, timestamps, predictVars, analysisVars, callVars>>

NextTrend == CallMannKendall \/ CallSenSlope

SpecTrend == InitTrend /\ [][NextTrend]_vars

(***************************************************************************)
(* Properties of the trend analyzer (SpecTrend).                           *)
(***************************************************************************)
DayOf(t) == t \div SecPerDay

StrictlyIncreasing(s) == \A k \in 1..(Len(s) - 1) : s[k] < s[k + 1]
StrictlyDecreasing(s) == \A k \in 1..(Len(s) - 1) : s[k] > s[k + 1]
AllEqual(s) == \A k \in 1..(Len(s) - 1) : s[k] = s[k + 1]
Distinct(s) == \A i, j \in 1..Len(s) : i # j => s[i] # s[j]

C5_ShortSeriesInsufficient ==
    (trendPc = "mk" /\ Len(data) < 3) =>
        /\ trendResult = InsufficientData
        /\ DOMAIN trendResult = {"trend", "direction", "significance", "pValue"}

C5_Witness ==
    /\ trendPc = "mk"
    /\ Len(data) = 2
    /\ data[1] < data[2]
    /\ timestamps[1] < timestamps[2]
    /\ trendResult.significance = "insufficient_data"
    /\ trendResult.direction = "stable"

\* the readings of a series with distinct timestamps, put in time order
TimeOrder(ts) == Ascending({ts[k] : k \in 1..Len(ts)})
IndexOfTime(ts, t) == CHOOSE k \in 1..Len(ts) : ts[k] = t
SortedData(d, ts) == [k \in 1..Len(d) |-> d[IndexOfTime(ts, TimeOrder(ts)[k])]]

\* C7: the analyzer's result does not depend on the order in which the
\* readings are supplied: for readings with distinct timestamps, S,
\* direction, significance and Sen's slope equal those of the time-sorted
\* sequence.
C7_OrderIndependent ==
    (trendPc = "mk" /\ Len(data) >= 3 /\ Distinct(timestamps)) =>
        LET sorted == calculateMannKendallTrend(SortedData(data, timestamps),
                                                TimeOrder(timestamps))
        IN  /\ trendResult.S = sorted.S
            /\ trendResult.direction = sorted.direction
            /\ trendResult.significance = sorted.significance
            /\ trendResult.trend = sorted.trend

\* slopes b = p/q per day that a series within the bounds can have
CandidateSlopes ==
    {Frac(p, q) : p \in (-(MaxVal + 1))..(MaxVal + 1), q \in 1..(MaxSpan + 1)}

\* value = a + b * days for every reading
LinearWithSlope(d, ts, b) ==
    \A k \in 1..Len(d) :
        (d[k] - d[1]) * b[2] = b[1] * (DayOf(ts[k]) - DayOf(ts[1]))

\* C8: for a series value = a + b * days over strictly increasing
\* timestamps, at least 2 points, calculateSenSlope returns b.
C8_SenSlopeRecoversLinear ==
    (trendPc = "sen" /\ Len(data) >= 2 /\ StrictlyIncreasing(timestamps)) =>
        \A b \in CandidateSlopes :
            LinearWithSlope(data, timestamps, b) => trendResult = b

\* a four-point line of slope 1/day: six pairwise slopes, even-count median
C8_Witness ==
    /\ trendPc = "sen"
    /\ Len(data) = 4
    /\ StrictlyIncreasing(timestamps)
    /\ LinearWithSlope(data, timestamps, <<1, 1>>)
    /\ trendResult = <<1, 1>>

\* C28: for every series of n >= 3 readings the tie-corrected variance
\* (n(n-1)(2n+5) - ties)/18 is strictly positive and |S| + ties is at most
\* n(n-1)/2, so Z is never the result of a division by zero.
C28_VariancePositive ==
    (trendPc = "mk" /\ Len(data) >= 3) =>
        LET n == Len(data) IN
        /\ trendResult.variance18 > 0
        /\ trendResult.variance18 = n * (n - 1) * (2 * n + 5) - MKTies(data)
        /\ 2 * (Abs(trendResult.S) + MKTies(data)) <= n * (n - 1)

\* three equal readings: every pair is tied
C28_Witness ==
    /\ trendPc = "mk"
    /\ Len(data) = 3
    /\ AllEqual(data)
    /\ MKTies(data) = 3
    /\ trendResult.S = 0
    /\ trendResult.variance18 = 63

\* C29: for a series of at least 3 readings with strictly increasing
\* timestamps, direction and slope never contradict each other: rising
\* implies trend >= 0 and falling implies trend <= 0.
C29_DirectionAgreesWithSlope ==
    (trendPc = "mk" /\ Len(data) >= 3 /\ StrictlyIncreasing(timestamps)) =>
        /\ trendResult.direction = "rising" => ~FracLess(trendResult.trend, Zero)
        /\ trendResult.direction = "falling" => ~FracLess(Zero, trendResult.trend)

\* a rising series that is not monotone: some pairwise slope is negative
C29_Witness ==
    /\ trendPc = "mk"
    /\ Len(data) >= 3
    /\ StrictlyIncreasing(timestamps)
    /\ \E k \in 1..(Len(data) - 1) : data[k] > data[k + 1]
    /\ trendResult.direction = "rising"
    /\ FracLess(Zero, trendResult.trend)

(***************************************************************************)
(* The ensemble predictor called on one request.                           *)
(***************************************************************************)
WaterLevels == {0, 15, 40}
ReadingConfidences == {Undefined, Some(80), Some(90)}
StationDistances == {5, 10}
AnnualRainfalls == {Undefined, Some(0), Some(300), Some(1000)}
MonsoonRainfalls == {Some(200), Some(600)}
RiverDistances == {Undefined, Some(0), Some(5), Some(20), Some(60)}
Permeabilities == {Undefined, Some("low"), Some("medium"), Some("high")}
Directions == {"falling", "stable", "rising"}
Significances == {"insufficient_data", "not_significant", "marginally_significant",
                  "significant", "very_significant", "highly_significant"}
TrendSlopes == {Zero, <<-3, 4>>}

LatestReadings ==
    {Undefined} \cup
    {Some([waterLevel |-> w, waterLevelStatus |-> Some("moderate"),
           metadataConfidence |-> c]) : w \in WaterLevels, c \in ReadingConfidences}

PlainStation == Some([technicalDetails |-> Undefined])
DetailedStation ==
    Some([technicalDetails |->
              Some([wellDepth |-> Some(45), aquiferType |-> Some("confined")])])

StationDatas ==
    {Undefined} \cup
    {Some([distance |-> d, latestReading |-> r, station |-> PlainStation]) :
        d \in StationDistances, r \in LatestReadings} \cup
    {Some([distance |-> 5, latestReading |-> Undefined, station |-> s]) :
        s \in {Undefined, DetailedStation}}

Rainfalls ==
    {Undefined} \cup
    {Some([annual |-> a, monsoon |-> m, trend |-> Some("stable")]) :
        a \in AnnualRainfalls, m \in MonsoonRainfalls}

Proximities ==
    {Undefined} \cup
    {Some([riverDistance |-> r, waterBodyDistance |-> Undefined,
           riverInfluence |-> Some("medium")]) : r \in RiverDistances}

Geologies ==
    {Undefined} \cup
    {Some([permeability |-> q, depth |-> Undefined]) : q \in Permeabilities}

EnvironmentalDatas ==
    {Undefined} \cup
    {Some([rainfall |-> r, proximity |-> x, geology |-> g]) :
        r \in Rainfalls, x \in Proximities, g \in Geologies}

TrendAnalyses ==
    {Undefined} \cup
    {Some([direction |-> Some(d), significance |-> Some(sg), trend |-> Some(t)]) :
        d \in Directions, sg \in Significances, t \in TrendSlopes}

Requests ==
    [latitude : {17}, longitude : {78}, stationData : StationDatas,
     environmentalData : EnvironmentalDatas, trendAnalysis : TrendAnalyses]

InitPredict ==
    /\ request \in Requests
    /\ prediction = NotCalled
    /\ data = <<>>
    /\ timestamps = <<>>
    /\ trendPc = "idle"
    /\ trendResult = NotCalled
    /\ readingStore = EmptyStore
    /\ trendAnalysis = NotCalled
    /\ call = NoCall
    /\ returned = NotCalled

Predict ==
    /\ ~prediction.called
    /\ prediction' = predictGroundwaterLevel(request)
    /\ UNCHANGED <<request, trendVars, analysisVars, callVars>>

NextPredict == Predict

SpecPredict == InitPredict /\ [][NextPredict]_vars

(***************************************************************************)
(* Properties of the ensemble predictor (SpecPredict).                     *)
(***************************************************************************)
Scoring == prediction.called /\ ~prediction.threw /\ prediction.features # {"fallback"}

\* C1: the availability score that predictGroundwaterLevel returns is a
\* number in [0,100] for every input in the documented ranges, with any
\* combination of optional inputs present or absent.
C1_ScoreInRange ==
    prediction.called =>
        /\ ~prediction.threw
        /\ prediction.availability.score \in 0..100

\* the linear sum is below 0 and the sub-model clamps it to 0
C1_Witness ==
    /\ Scoring
    /\ LinearSum(extractFeatures(request).features) < 0
    /\ prediction.modelDetails.linearScore = 0
    /\ prediction.availability.score \in 0..19

\* the label the documented thresholds give a reported score
StatusOfReported(score) ==
    IF score >= 80 THEN "excellent"
    ELSE IF score >= 60 THEN "good"
    ELSE IF score >= 40 THEN "moderate"
    ELSE IF score >= 20 THEN "low"
    ELSE "critical"

\* C2: in every non-fallback result the status label is the one the
\* thresholds 20/40/60/80 give the reported (rounded) score; a reported
\* score of exactly 20, 40, 60 or 80 carries the higher label.
C2_StatusOfRoundedScore ==
    Scoring =>
        prediction.availability.status = StatusOfReported(prediction.availability.score)

\* C3: when feature extraction raises an error (station record,
\* environmental context or trend result absent) the call does not fail and
\* returns exactly score 50, status moderate, confidence 30, features
\* ["fallback"].
C3_FallbackOnError ==
    (prediction.called /\ extractFeatures(request).threw) =>
        /\ ~prediction.threw
        /\ prediction.availability = [score |-> 50, status |-> "moderate"]
        /\ prediction.confidence = 30
        /\ prediction.features = {"fallback"}

C3_Witness ==
    /\ prediction.called
    /\ request.stationData # Undefined
    /\ request.stationData[1].station # Undefined
    /\ request.environmentalData # Undefined
    /\ request.trendAnalysis = Undefined
    /\ prediction.features = {"fallback"}
    /\ prediction.confidence = 30

\* the confidence the predictor computes for a request that scores
ConfidenceOf(req) ==
    calculatePredictionConfidence(extractFeatures(req).features, req.stationData[1])

\* the request with one corroborating signal turned on, the rest as they are
WithReading(req) ==
    IF IsDefined(req.stationData[1].latestReading) THEN req
    ELSE [req EXCEPT !.stationData[1].latestReading =
              Some([waterLevel |-> 15, waterLevelStatus |-> Some("moderate"),
                    metadataConfidence |-> Undefined])]
WithRainfall(req) ==
    IF IsDefined(req.environmentalData[1].rainfall)
    THEN [req EXCEPT !.environmentalData[1].rainfall[1].annual = Some(300)]
    ELSE req
WithRiverNear(req) ==
    IF IsDefined(req.environmentalData[1].proximity)
    THEN [req EXCEPT !.environmentalData[1].proximity[1].riverDistance = Some(5)]
    ELSE [req EXCEPT !.environmentalData[1].proximity =
              Some([riverDistance |-> Some(5), waterBodyDistance |-> Undefined,
                    riverInfluence |-> Undefined])]
WithTrend(req, significance) ==
    [req EXCEPT !.trendAnalysis[1].significance = Some(significance)]
WithStationNear(req) == [req EXCEPT !.stationData[1].distance = 5]
WithReadingConfidence(req) ==
    IF IsDefined(req.stationData[1].latestReading)
    THEN [req EXCEPT !.stationData[1].latestReading[1].metadataConfidence = Some(90)]
    ELSE req

SignalsOn(req) ==
    {WithReading(req), WithRainfall(req), WithRiverNear(req),
     WithTrend(req, "highly_significant"), WithStationNear(req),
     WithReadingConfidence(req)}

\* C9: the confidence is in [0,100], and turning on any one of the six
\* corroborating signals while the other five stay as they are never
\* lowers it.
C9_ConfidenceMonotone ==
    Scoring =>
        /\ prediction.confidence \in 0..100
        /\ \A on \in SignalsOn(request) : ConfidenceOf(on) >= prediction.confidence

\* all six signals on: 120 before the cap, and less with the station far
C9_Witness ==
    /\ Scoring
    /\ prediction.confidence = 100
    /\ ConfidenceSum(extractFeatures(request).features, request.stationData[1]) = 120
    /\ request = WithStationNear([request EXCEPT !.stationData[1].distance = 10])

StrongSignificances == {"significant", "very_significant", "highly_significant"}

\* C10: the +10 trend bonus of the confidence is applied for a trend whose
\* significance is significant, very_significant or highly_significant and
\* for no weaker significance.
C10_BonusForSignificant ==
    Scoring =>
        LET without == ConfidenceOf(WithTrend(request, "not_significant"))
        IN  prediction.confidence =
                IF request.trendAnalysis[1].significance[1] \in StrongSignificances
                THEN Min2(100, without + 10)
                ELSE without

\* a feature is a number, not the undefined value (told apart by their
\* printed form, as a number and undefined cannot be compared)
IsNumeric(v) == ToString(v) # ToString(Undefined)

\* the features the three sub-models read
IntegerFeatures ==
    {"current_water_level", "annual_rainfall", "monsoon_rainfall",
     "nearest_river_distance", "soil_permeability", "trend_direction",
     "trend_significance"}

\* C22: every feature that the three sub-models read from the vector built
\* by extractFeatures is a defined number, for every combination of
\* present and absent source fields.
C22_ScoringFeaturesDefined ==
    ~ExtractThrows(request) =>
        LET f == FeaturesOf(request)
        IN  /\ \A name \in IntegerFeatures : IsNumeric(f[name])
            /\ IsNumeric(f.trend_magnitude[1])
            /\ IsNumeric(f.trend_magnitude[2])
            /\ f.trend_magnitude[2] > 0

\* scored with no latest reading and no rainfall, proximity or geology part
C22_Witness ==
    /\ prediction.called
    /\ ~ExtractThrows(request)
    /\ request.stationData[1].latestReading = Undefined
    /\ request.environmentalData[1].rainfall = Undefined
    /\ request.environmentalData[1].proximity = Undefined
    /\ request.environmentalData[1].geology = Undefined
    /\ "modelDetails" \in DOMAIN prediction
    /\ FeaturesOf(request).annual_rainfall = 800
    /\ FeaturesOf(request).nearest_river_distance = 50

\* C23: extractFeatures substitutes a default only for an input that is
\* missing: a supplied value, 0 included, becomes the feature unchanged,
\* and a missing annual or monsoon rainfall becomes 800 or 600 mm.
C23_DefaultOnlyForMissing ==
    (prediction.called /\ ~ExtractThrows(request)) =>
        LET f == FeaturesOf(request)
            env == request.environmentalData[1]
            supplied(part, field) ==
                IF IsDefined(env[part]) THEN env[part][1][field] ELSE Undefined
            asSupplied(part, field, dflt) ==
                IF IsDefined(supplied(part, field)) THEN supplied(part, field)[1]
                ELSE dflt
        IN  /\ f.nearest_river_distance = asSupplied("proximity", "riverDistance", 50)
            /\ f.nearest_waterbody_distance =
                   asSupplied("proximity", "waterBodyDistance", 50)
            /\ f.aquifer_depth = asSupplied("geology", "depth", 20)
            /\ f.annual_rainfall = asSupplied("rainfall", "annual", 800)
            /\ f.monsoon_rainfall = asSupplied("rainfall", "monsoon", 600)

\* only optional inputs are missing: the station data, its station and the
\* trend result are there; the latest reading, the environmental context
\* or any of its parts may be absent
OnlyOptionalMissing ==
    /\ IsDefined(request.stationData)
    /\ IsDefined(request.stationData[1].station)
    /\ IsDefined(request.trendAnalysis)

\* C25: when optional inputs are missing (no latest reading; environmental
\* context absent or lacking its rainfall, proximity or geology part) the
\* predictor scores with the defaults instead of returning the fallback.
C25_DefaultsNotFallback ==
    (prediction.called /\ OnlyOptionalMissing) =>
        /\ ~prediction.threw
        /\ prediction.features # {"fallback"}

(***************************************************************************)
(* The analysis request computing the trend of its nearest station.        *)
(***************************************************************************)
StoreLevels == {1, 2}

InitAnalysis ==
    /\ \E days \in SUBSET (1..MaxReadings) : readingStore \in [days -> StoreLevels]
    /\ trendAnalysis = NotCalled
    /\ data = <<>>
    /\ timestamps = <<>>
    /\ trendPc = "idle"
    /\ trendResult = NotCalled
    /\ request = IdleRequest
    /\ prediction = NotCalled
    /\ call = NoCall
    /\ returned = NotCalled

CalculateTrendAnalysis ==
    /\ ~trendAnalysis.called
    /\ trendAnalysis' = calculateTrendAnalysis(readingStore)
    /\ UNCHANGED <<readingStore, trendVars, predictVars, callVars>>

NextAnalysis == CalculateTrendAnalysis

SpecAnalysis == InitAnalysis /\ [][NextAnalysis]_vars

(***************************************************************************)
(* Properties of the analysis request (SpecAnalysis).                      *)
(***************************************************************************)
ReadingCount == Cardinality(DOMAIN readingStore)
StoredLevels == [k \in 1..ReadingCount |-> getReadingsInRange(readingStore)[k].waterLevel]

ComputedSignificances ==
    {"not_significant", "marginally_significant", "significant",
     "very_significant", "highly_significant"}

\* C6 as stated: the trend result an analysis request feeds to the
\* predictor has significance insufficient_data if and only if the series
\* has fewer than 3 observations.
C6_InsufficientIffBelow3 ==
    trendAnalysis.called =>
        ((trendAnalysis.significance = "insufficient_data") <=> (ReadingCount < 3))

\* C6 amended: the trend result an analysis request feeds to the predictor
\* has significance insufficient_data if and only if the series has fewer
\* than 10 observations; a series of 10 or more readings gets the computed
\* Mann-Kendall direction and significance.
C6_InsufficientIffBelow10 ==
    trendAnalysis.called =>
        /\ (trendAnalysis.significance = "insufficient_data") <=> (ReadingCount < 10)
        /\ ReadingCount >= 10 =>
              /\ trendAnalysis.significance \in ComputedSignificances
              /\ trendAnalysis.direction = DirectionOf(MKStatistic(StoredLevels))
        /\ ReadingCount < 10 =>
              /\ trendAnalysis.direction = "stable"
              /\ trendAnalysis.trend = Zero

C6_Witness ==
    /\ trendAnalysis.called
    /\ ReadingCount = 10
    /\ trendAnalysis.significance = "significant"
    /\ trendAnalysis.direction = "rising"

(***************************************************************************)
(* analysisService: calculateSustainability                                *)
(* currentLevel is optional; a rate is Some(v) or NaN.  Every comparison   *)
(* with NaN is false.                                                      *)
(***************************************************************************)
NaN == <<>>
IsNumber(x) == x # NaN

\* !currentLevel: undefined, null and 0 are falsy
Falsy(o) == o = Undefined \/ o[1] = 0

\* the difference taken the other way round: rechargeRate - extractionRate
NetExtractionReversed(extractionRate, rechargeRate) ==
    IF IsNumber(rechargeRate) THEN Some(rechargeRate[1] - extractionRate) ELSE NaN

\* extractionRate - rechargeRate
NetExtraction(extractionRate, rechargeRate) ==
    IF IsNumber(rechargeRate) THEN Some(extractionRate - rechargeRate[1]) ELSE NaN

\* Math.round(x) of a fraction num / den >= 0
RoundFraction(num, den) == (2 * num + den) \div (2 * den)

\* a projection that multiplies by the net extraction instead of dividing
ProjectedYearsMultiplied(level, net) == RoundFraction(level * net, 365)

\* Math.round(Math.max(0, availableWater / (netExtraction * 365))), net > 0
ProjectedYears(level, net) ==
    LET availableWater == level * 1000
    IN  RoundFraction(Max2(0, availableWater), net * 365)

EffectivelyUnlimited == 999

BalanceOf(extractionRate, rechargeRate) ==
    LET net == NetExtraction(extractionRate, rechargeRate)
    IN  IF IsNumber(net) /\ 10 * net[1] > rechargeRate[1] THEN "deficit"
        ELSE IF IsNumber(rechargeRate) /\ 10 * rechargeRate[1] > 11 * extractionRate
             THEN "surplus"
        ELSE "balanced"

calculateSustainability(currentLevel, extractionRate, rechargeRate) ==
    IF Falsy(currentLevel)
    THEN [yearsRemaining |-> 0, extractionRate |-> extractionRate,
          rechargeRate |-> rechargeRate, balance |-> "unknown"]
    ELSE LET net == NetExtraction(extractionRate, rechargeRate)
         IN  [yearsRemaining |->
                  IF IsNumber(net) /\ net[1] > 0
                  THEN ProjectedYears(currentLevel[1], net[1])
                  ELSE EffectivelyUnlimited,
              extractionRate |-> extractionRate,
              rechargeRate |-> rechargeRate,
              balance |-> BalanceOf(extractionRate, rechargeRate)]

(***************************************************************************)
(* The sustainability calculator called on one set of arguments.           *)
(***************************************************************************)
MaxRate == 12      \* small rates 0..MaxRate L/day, where rounding shows

TrendIdle ==
    /\ data = <<>>
    /\ timestamps = <<>>
    /\ trendPc = "idle"
    /\ trendResult = NotCalled
PredictIdle == request = IdleRequest /\ prediction = NotCalled
AnalysisIdle == readingStore = EmptyStore /\ trendAnalysis = NotCalled

CurrentLevels == {Undefined, Some(0), Some(5), Some(8), Some(40), Some(400)}
ExtractionRates == (0..MaxRate) \cup {90, 100, 110, 1000, 5000}
RechargeRates == {NaN} \cup {Some(r) : r \in {0, 1, 5, 10, 90, 100, 300}}

InitSustain ==
    /\ call \in [fn : {"calculateSustainability"}, currentLevel : CurrentLevels,
                 extractionRate : ExtractionRates, rechargeRate : RechargeRates]
    /\ returned = NotCalled
    /\ TrendIdle /\ PredictIdle /\ AnalysisIdle

CallSustainability ==
    /\ call.fn = "calculateSustainability"
    /\ ~returned.called
    /\ returned' = [called |-> TRUE,
                    value |-> calculateSustainability(call.currentLevel,
                                                      call.extractionRate,
                                                      call.rechargeRate)]
    /\ UNCHANGED <<call, trendVars, predictVars, analysisVars>>

NextSustain == CallSustainability

SpecSustain == InitSustain /\ [][NextSustain]_vars

(***************************************************************************)
(* Properties of the sustainability calculator (SpecSustain).              *)
(***************************************************************************)
SustainReturned == call.fn = "calculateSustainability" /\ returned.called

\* the projection level * 1000 / ((extraction - recharge) * 365) rounds to 0
ProjectionRoundsTo0(level, extractionRate, rechargeRate) ==
    /\ extractionRate > rechargeRate
    /\ 2 * level * 1000 < (extractionRate - rechargeRate) * 365

\* C11: yearsRemaining is 0 only when the current level is absent or the
\* computed projection rounds to 0; for every present current level,
\* including 0 m, it is 999 whenever recharge >= extraction.
C11_ZeroOnlyWhenAbsent ==
    (SustainReturned /\ IsNumber(call.rechargeRate)) =>
        /\ returned.value.yearsRemaining = 0 =>
              \/ call.currentLevel = Undefined
              \/ ProjectionRoundsTo0(call.currentLevel[1], call.extractionRate,
                                     call.rechargeRate[1])
        /\ (IsDefined(call.currentLevel) /\ call.rechargeRate[1] >= call.extractionRate)
              => returned.value.yearsRemaining = 999

YearsAt(extractionRate) ==
    calculateSustainability(call.currentLevel, extractionRate,
                            call.rechargeRate).yearsRemaining

\* the claim's case: a present level, a fixed recharge, extraction above it
DepletingCall ==
    /\ SustainReturned
    /\ IsDefined(call.currentLevel)
    /\ IsNumber(call.rechargeRate)
    /\ call.extractionRate > call.rechargeRate[1]

\* C12 as stated: for a fixed present level and recharge, the reported
\* yearsRemaining strictly decreases as the extraction rate increases over
\* values above the recharge rate.
C12_StrictlyDecreasing ==
    DepletingCall =>
        \A e2 \in ExtractionRates :
            call.extractionRate < e2 => returned.value.yearsRemaining > YearsAt(e2)

\* C12 amended: for a fixed present level and recharge, the reported
\* yearsRemaining never increases as the extraction rate increases over
\* values above the recharge rate.
C12_NonIncreasing ==
    DepletingCall =>
        \A e2 \in ExtractionRates :
            call.extractionRate < e2 => returned.value.yearsRemaining >= YearsAt(e2)

\* level 5 m, recharge 1: 14 years at extraction 2, 7 at 3, 0 at 5000
C12_Witness ==
    /\ DepletingCall
    /\ call.currentLevel = Some(5)
    /\ call.rechargeRate = Some(1)
    /\ call.extractionRate = 2
    /\ returned.value.yearsRemaining = 14
    /\ YearsAt(3) = 7
    /\ YearsAt(5000) = 0

\* C13: with a present current level the balance is deficit exactly when
\* (extraction - recharge) > 0.1 * recharge, otherwise surplus exactly when
\* recharge > 1.1 * extraction, otherwise balanced.
C13_BalanceLabel ==
    (SustainReturned /\ IsDefined(call.currentLevel) /\ IsNumber(call.rechargeRate)) =>
        LET e == call.extractionRate
            r == call.rechargeRate[1]
        IN  returned.value.balance =
                IF 10 * (e - r) > r THEN "deficit"
                ELSE IF 10 * r > 11 * e THEN "surplus"
                ELSE "balanced"

\* C30: 999 is the largest yearsRemaining returned: for every present level
\* and every pair of non-negative rates with extraction greater than
\* recharge the reported yearsRemaining is below 999, so 999 is returned
\* only when recharge >= extraction.
C30_Below999WhenDepleting ==
    (SustainReturned /\ IsNumber(call.rechargeRate)) =>
        /\ returned.value.yearsRemaining <= 999
        /\ DepletingCall => returned.value.yearsRemaining < 999
        /\ returned.value.yearsRemaining = 999 =>
               call.rechargeRate[1] >= call.extractionRate

(***************************************************************************)
(* analysisService: calculateUsageSuitability                              *)
(* pH is kept in tenths (65 is pH 6.5); a missing quality record or a      *)
(* missing field compares false, as undefined does.                        *)
(***************************************************************************)
QualityField(quality, field) ==
    IF IsDefined(quality) /\ field \in DOMAIN quality[1] THEN quality[1][field]
    ELSE Undefined

\* Math.max(0, 100 - (waterLevel || 20) * 2)
BaseScore(waterLevel) == Max2(0, 100 - OrDefault(waterLevel, 20) * 2)

PhBonus(quality) ==
    LET ph == QualityField(quality, "ph")
    IN  IF IsDefined(ph) /\ ph[1] > 65 /\ ph[1] < 85 THEN 20 ELSE 0

TdsBonus(quality, limit, bonus) ==
    LET tds == QualityField(quality, "tds")
    IN  IF IsDefined(tds) /\ tds[1] < limit THEN bonus ELSE 0

UsageStatus(baseScore, suitableAbove, moderateAbove) ==
    IF baseScore > suitableAbove THEN "suitable"
    ELSE IF baseScore > moderateAbove THEN "moderate"
    ELSE "unsuitable"

calculateUsageSuitability(waterLevel, quality) ==
    LET baseScore == BaseScore(waterLevel)
    IN  [agriculture |->
            [score |-> Min2(100, baseScore + PhBonus(quality)),
             status |-> UsageStatus(baseScore, 70, 40),
             recommendations |->
                 IF baseScore < 50
                 THEN <<"Consider water-efficient crops", "Implement drip irrigation">>
                 ELSE <<>>],
         domestic |->
            [score |-> Min2(100, baseScore + TdsBonus(quality, 500, 15)),
             status |-> UsageStatus(baseScore, 60, 30),
             recommendations |->
                 IF baseScore < 40
                 THEN <<"Install water treatment", "Regular water testing">>
                 ELSE <<>>],
         industrial |->
            [score |-> Min2(100, baseScore + TdsBonus(quality, 1000, 10)),
             status |-> UsageStatus(baseScore, 50, 25),
             recommendations |->
                 IF baseScore < 30
                 THEN <<"Water recycling systems", "Alternative water sources">>
                 ELSE <<>>]]

(***************************************************************************)
(* The usage-suitability calculator called on one set of arguments.        *)
(***************************************************************************)
MaxLevel == 12     \* water levels 0..MaxLevel in steps of 5 m

UsageLevels == {5 * k : k \in 0..MaxLevel} \cup {1, 2}
PhValues == {60, 65, 70, 85, 90}
TdsValues == {0, 300, 500, 700, 1000, 1500}
Qualities ==
    {Undefined} \cup
    {Some([ph |-> ph, tds |-> tds]) :
        ph \in {Undefined} \cup {Some(v) : v \in PhValues},
        tds \in {Undefined} \cup {Some(v) : v \in TdsValues}}

InitUsage ==
    /\ call \in [fn : {"calculateUsageSuitability"},
                 waterLevel : {Undefined} \cup {Some(l) : l \in UsageLevels},
                 quality : Qualities]
    /\ returned = NotCalled
    /\ TrendIdle /\ PredictIdle /\ AnalysisIdle

CallUsageSuitability ==
    /\ call.fn = "calculateUsageSuitability"
    /\ ~returned.called
    /\ returned' = [called |-> TRUE,
                    value |-> calculateUsageSuitability(call.waterLevel, call.quality)]
    /\ UNCHANGED <<call, trendVars, predictVars, analysisVars>>

NextUsage == CallUsageSuitability

SpecUsage == InitUsage /\ [][NextUsage]_vars

(***************************************************************************)
(* Properties of the usage-suitability calculator (SpecUsage).             *)
(***************************************************************************)
Uses == {"agriculture", "domestic", "industrial"}

\* C16: for fixed water-quality inputs, each of the agriculture, domestic
\* and industrial scores is non-increasing in the water level over all
\* levels >= 0, including when the lower level is 0.
C16_ScoresNonIncreasing ==
    (call.fn = "calculateUsageSuitability" /\ returned.called
     /\ IsDefined(call.waterLevel)) =>
        \A level2 \in UsageLevels : \A use \in Uses :
            call.waterLevel[1] <= level2 =>
                returned.value[use].score >=
                    calculateUsageSuitability(Some(level2), call.quality)[use].score

\* the thresholds above which a use is suitable and moderate
UsageThresholds ==
    [agriculture |-> <<70, 40>>, domestic |-> <<60, 30>>, industrial |-> <<50, 25>>]

\* C27: the status of each use is determined by that use's reported score
\* (base score plus quality bonus, capped at 100): suitable above the use's
\* upper threshold, moderate above its lower threshold, else unsuitable; two
\* results with the same score for a use never carry different statuses.
C27_StatusOfReportedScore ==
    (call.fn = "calculateUsageSuitability" /\ returned.called) =>
        \A use \in Uses :
            /\ returned.value[use].status =
                   (IF returned.value[use].score > UsageThresholds[use][1]
                    THEN "suitable"
                    ELSE IF returned.value[use].score > UsageThresholds[use][2]
                    THEN "moderate"
                    ELSE "unsuitable")
            /\ \A level2 \in UsageLevels : \A quality2 \in Qualities :
                   LET other == calculateUsageSuitability(Some(level2), quality2)[use]
                   IN  other.score = returned.value[use].score =>
                           other.status = returned.value[use].status

(***************************************************************************)
(* analysisService: generateRecommendations                                *)
(* availability: [score, status]; sustainability: a record with balance;   *)
(* environmentalData: as the predictor reads it; trend: the trendAnalysis  *)
(* argument, with direction and significance.  A recommendation is kept as its type, *)
(* priority and title.                                                     *)
(***************************************************************************)
Recommendation(type, priority, title) ==
    [type |-> type, priority |-> priority, title |-> title]

\* a generator that puts each new recommendation in front of the others
PushFront(recommendations, recommendation) == <<recommendation>> \o recommendations

\* recommendations.push(...)
Push(recommendations, recommendation) == Append(recommendations, recommendation)

\* environmentalData.rainfall.annual read with no guard: a TypeError when
\* environmentalData or its rainfall is undefined
RainfallReadThrows(environmentalData) ==
    \/ environmentalData = Undefined
    \/ environmentalData[1].rainfall = Undefined

\* a rainfall test that also passes at the limit itself
RainfallAtLeast(environmentalData, limit) ==
    LET annual == environmentalData[1].rainfall[1].annual
    IN  IsDefined(annual) /\ annual[1] >= limit

\* environmentalData.rainfall.annual > limit (false for undefined)
RainfallAbove(environmentalData, limit) ==
    LET annual == environmentalData[1].rainfall[1].annual
    IN  IsDefined(annual) /\ annual[1] > limit

\* the right operand of && is evaluated only when the left one is true
RecommendThrows(availability, sustainability, environmentalData) ==
    /\ RainfallReadThrows(environmentalData)
    /\ (sustainability.balance = "deficit" \/ availability.score > 70)

RecommendationsOf(availability, sustainability, environmentalData, trend) ==
    LET none == <<>>
        afterLevel ==
            IF availability.score < 30
            THEN Push(none, Recommendation("conservation", "critical",
                                           "Immediate Water Conservation Required"))
            ELSE IF availability.score < 50
            THEN Push(none, Recommendation("conservation", "high",
                                           "Water Conservation Measures"))
            ELSE none
        afterRecharge ==
            IF sustainability.balance = "deficit" /\ RainfallAbove(environmentalData, 500)
            THEN Push(afterLevel, Recommendation("recharge", "high",
                                                 "Install Rainwater Harvesting"))
            ELSE afterLevel
        afterTrend ==
            IF trend.direction = "falling"
               /\ trend.significance = "significant"
            THEN Push(afterRecharge, Recommendation("monitoring", "medium",
                                                    "Enhanced Monitoring Required"))
            ELSE afterRecharge
    IN  IF availability.score > 70 /\ RainfallAbove(environmentalData, 800)
        THEN Push(afterTrend, Recommendation("infrastructure", "low",
                                             "Water-Efficient Irrigation"))
        ELSE afterTrend

generateRecommendations(availability, sustainability, environmentalData, trend) ==
    IF RecommendThrows(availability, sustainability, environmentalData)
    THEN [threw |-> TRUE]
    ELSE [threw |-> FALSE,
          recommendations |-> RecommendationsOf(availability, sustainability,
                                                environmentalData, trend)]

(***************************************************************************)
(* The recommendation generator called on one set of arguments.            *)
(***************************************************************************)
ScoreStep == 10     \* availability scores 0..100 in steps of ScoreStep

AvailabilityScores ==
    {score \in 0..100 : score % ScoreStep = 0} \cup {29, 30, 49, 50, 51, 70, 71}
Balances == {"deficit", "balanced", "surplus", "unknown"}
RecommendRainfalls ==
    {Undefined} \cup
    {Some([annual |-> a, monsoon |-> Some(0), trend |-> Some("stable")]) :
        a \in {Undefined} \cup {Some(v) : v \in {0, 500, 501, 800, 801}}}
RecommendEnvironments ==
    {Some([rainfall |-> r, proximity |-> Undefined, geology |-> Undefined]) :
        r \in RecommendRainfalls}

InitRecommend ==
    /\ call \in [fn : {"generateRecommendations"},
                 availability : [score : AvailabilityScores, status : {"moderate"}],
                 sustainability : [balance : Balances],
                 environmentalData : RecommendEnvironments,
                 trendAnalysis : [direction : Directions, significance : Significances]]
    /\ returned = NotCalled
    /\ TrendIdle /\ PredictIdle /\ AnalysisIdle

CallRecommendations ==
    /\ call.fn = "generateRecommendations"
    /\ ~returned.called
    /\ returned' = [called |-> TRUE,
                    value |-> generateRecommendations(call.availability,
                                                      call.sustainability,
                                                      call.environmentalData,
                                                      call.trendAnalysis)]
    /\ UNCHANGED <<call, trendVars, predictVars, analysisVars>>

NextRecommend == CallRecommendations

SpecRecommend == InitRecommend /\ [][NextRecommend]_vars

(***************************************************************************)
(* Properties of the recommendation generator (SpecRecommend).             *)
(***************************************************************************)
RecommendReturned ==
    call.fn = "generateRecommendations" /\ returned.called /\ ~returned.value.threw

Listed == returned.value.recommendations
ListedOfType(type) == {i \in 1..Len(Listed) : Listed[i].type = type}
HasType(type) == ListedOfType(type) # {}
PriorityOfType(type) == Listed[CHOOSE i \in ListedOfType(type) : TRUE].priority

\* C17: the medium-priority enhanced-monitoring recommendation is appended
\* whenever the direction is falling and the significance is significant,
\* very_significant or highly_significant, and never otherwise.
C17_MonitoringForStrongFall ==
    RecommendReturned =>
        (HasType("monitoring") <=>
            /\ call.trendAnalysis.direction = "falling"
            /\ call.trendAnalysis.significance \in StrongSignificances)

RuleOrder == <<"conservation", "recharge", "monitoring", "infrastructure">>
RuleOf(type) == CHOOSE k \in 1..Len(RuleOrder) : RuleOrder[k] = type

\* C18: the returned list holds at most one recommendation per rule and
\* lists them in rule order (conservation, recharge, monitoring,
\* infrastructure), whatever their priorities.
C18_OnePerRuleInRuleOrder ==
    RecommendReturned =>
        \A i, j \in 1..Len(Listed) :
            i < j => RuleOf(Listed[i].type) < RuleOf(Listed[j].type)

\* three rules fire: critical conservation, recharge, monitoring
C18_Witness ==
    /\ RecommendReturned
    /\ Len(Listed) = 3
    /\ Listed[1].type = "conservation" /\ Listed[1].priority = "critical"
    /\ Listed[2].type = "recharge"
    /\ Listed[3].type = "monitoring" /\ Listed[3].priority = "medium"

AnnualIn(environmentalData) == environmentalData[1].rainfall[1].annual

\* C19: a conservation record is present exactly when the score is below
\* 50, critical below 30 and high otherwise; a recharge record exactly when
\* the balance is deficit and annual rainfall exceeds 500; an
\* infrastructure record exactly when the score exceeds 70 and annual
\* rainfall exceeds 800.
C19_RulesFireExactly ==
    RecommendReturned =>
        LET score == call.availability.score
            rainfallOver(limit) ==
                /\ ~RainfallReadThrows(call.environmentalData)
                /\ IsDefined(AnnualIn(call.environmentalData))
                /\ AnnualIn(call.environmentalData)[1] > limit
        IN  /\ HasType("conservation") <=> score < 50
            /\ HasType("conservation") =>
                   PriorityOfType("conservation") =
                       (IF score < 30 THEN "critical" ELSE "high")
            /\ HasType("recharge") <=>
                   (call.sustainability.balance = "deficit" /\ rainfallOver(500))
            /\ HasType("infrastructure") <=> (score > 70 /\ rainfallOver(800))

\* score 49 and a deficit at exactly 500 mm: high conservation, no recharge
C19_Witness ==
    /\ RecommendReturned
    /\ call.availability.score = 49
    /\ call.sustainability.balance = "deficit"
    /\ AnnualIn(call.environmentalData) = Some(500)
    /\ HasType("conservation") /\ PriorityOfType("conservation") = "high"
    /\ ~HasType("recharge")

(***************************************************************************)
(* analysisService: performGroundwaterAnalysis                             *)
(* readingStore holds the nearest station's active readings of the last    *)
(* 365 days.  The request carries what the data sources answer: the        *)
(* station found within 50 km (or none), its distance, the station's       *)
(* latest reading older than a year (or none), and the record that         *)
(* getExternalData returned, which has the fields rainfall, weather,       *)
(* proximity, geology and lastUpdated (weather and lastUpdated are read by *)
(* nothing here and are left out).                                         *)
(***************************************************************************)
ReadingOf(store, day) ==
    Some([waterLevel |-> store[day], waterLevelStatus |-> Some("moderate"),
          metadataConfidence |-> Some(90)])

\* the reading a sort by { timestamp: 1 } would put first
EarliestReading(store, olderReading) ==
    IF DOMAIN store = {} THEN olderReading
    ELSE ReadingOf(store, Min(DOMAIN store))

\* Reading.findOne({ stationId, isActive }).sort({ timestamp: -1 })
LatestReading(store, olderReading) ==
    IF DOMAIN store = {} THEN olderReading
    ELSE ReadingOf(store, CHOOSE d \in DOMAIN store : \A e \in DOMAIN store : e <= d)

findNearestStationData(req, store) ==
    IF req.station = Undefined
    THEN [threw |-> TRUE, message |-> "No monitoring station found within 50km radius"]
    ELSE [threw |-> FALSE,
          station |-> req.station,
          latestReading |-> LatestReading(store, req.olderReading),
          distance |-> req.distance]

\* object.name: undefined when the object has no such property
Property(object, name) ==
    IF name \in DOMAIN object THEN object[name] ELSE Undefined

\* environmentalData.annualRainfall * 0.3; undefined * 0.3 is NaN.  The
\* annual rainfalls of the model are multiples of 10.
RechargeEstimate(environmentalData) ==
    LET annualRainfall == Property(environmentalData[1], "annualRainfall")
    IN  IF IsDefined(annualRainfall) THEN Some((3 * annualRainfall[1]) \div 10)
        ELSE NaN

\* nearestStationData.latestReading?.waterLevel
LevelOf(latestReading) ==
    IF IsDefined(latestReading) THEN Some(latestReading[1].waterLevel) ELSE Undefined

\* nearestStationData.station.technicalDetails?.waterQuality
WaterQualityOf(station) ==
    IF IsDefined(station[1].technicalDetails)
    THEN Property(station[1].technicalDetails[1], "waterQuality")
    ELSE Undefined

\* the trend result as the predictor's trendAnalysis argument
TrendArgument(trend) ==
    Some([direction |-> Some(trend.direction),
          significance |-> Some(trend.significance),
          trend |-> Some(trend.trend)])

AnalysisFailed == [threw |-> TRUE, message |-> "Failed to perform groundwater analysis"]

performGroundwaterAnalysis(req, store) ==
    LET nearestStationData == findNearestStationData(req, store)
        environmentalData == req.environmentalData
        trend == calculateTrendAnalysis(store)
        waterLevel == LevelOf(nearestStationData.latestReading)
        mlPrediction ==
            predictGroundwaterLevel(
                [latitude |-> req.latitude,
                 longitude |-> req.longitude,
                 stationData |->
                     Some([distance |-> nearestStationData.distance,
                           latestReading |-> nearestStationData.latestReading,
                           station |-> nearestStationData.station]),
                 environmentalData |-> environmentalData,
                 trendAnalysis |-> TrendArgument(trend)])
        sustainability ==
            calculateSustainability(waterLevel, req.extractionRate,
                                    RechargeEstimate(environmentalData))
        recommendations ==
            generateRecommendations(mlPrediction.availability, sustainability,
                                    environmentalData, trend)
        estimated == OrDefault(waterLevel, 15)
    IN  IF nearestStationData.threw THEN AnalysisFailed
        ELSE IF recommendations.threw THEN AnalysisFailed
        ELSE [threw |-> FALSE,
              nearestStation |->
                  [distance |-> nearestStationData.distance,
                   waterLevel |-> waterLevel],
              groundwaterAssessment |->
                  [availability |->
                       [score |-> mlPrediction.availability.score,
                        status |-> mlPrediction.availability.status,
                        confidence |-> mlPrediction.confidence],
                   depth |->
                       [estimated |-> estimated,
                        range |-> [min |-> Max2(0, estimated - 5),
                                   max |-> estimated + 5]],
                   sustainability |-> sustainability],
              environmentalFactors |->
                  [rainfall |-> environmentalData[1].rainfall,
                   proximity |-> environmentalData[1].proximity,
                   geology |-> environmentalData[1].geology],
              recommendations |-> recommendations.recommendations,
              usageSuitability |->
                  calculateUsageSuitability(waterLevel,
                                            WaterQualityOf(nearestStationData.station)),
              mlPredictions |->
                  [model |-> "ensemble",
                   predictionConfidence |-> mlPrediction.confidence]]

(***************************************************************************)
(* One analysis request handled from start to finish.                      *)
(***************************************************************************)
\* readings taken every 30 days, the first on day 0
Monthly(levels) == [d \in {30 * (k - 1) : k \in 1..Len(levels)} |->
                        levels[(d \div 30) + 1]]

\* 12 monthly readings strictly decreasing from 25 m to 5 m
ScenarioAStores ==
    {Monthly(<<25, 23, 21, 19, 17, 15, 13, 11, 9, 7, 6, 5>>),
     Monthly(<<25, 24, 23, 22, 21, 20, 19, 18, 17, 16, 15, 5>>)}
\* 10 monthly readings constant at 8 m
ScenarioBStore == Monthly(<<8, 8, 8, 8, 8, 8, 8, 8, 8, 8>>)

EngineStores ==
    ScenarioAStores \cup
    {ScenarioBStore, EmptyStore, Monthly(<<10, 9, 8>>),
     Monthly(<<11, 10, 9, 8, 7, 6, 5, 4, 3, 2, 1, 0>>)}

QualityStation ==
    Some([technicalDetails |->
              Some([wellDepth |-> Some(45), aquiferType |-> Some("confined"),
                    waterQuality |-> Some([ph |-> Some(70), tds |-> Some(300)])])])

ExternalDatas ==
    {Some([rainfall |-> Some([annual |-> Some(a), monsoon |-> Some(m),
                              trend |-> Some("stable")]),
           proximity |-> Some([riverDistance |-> r, waterBodyDistance |-> Undefined,
                               riverInfluence |-> Some("medium")]),
           geology |-> Some([permeability |-> Some(q), depth |-> Some(20)])]) :
        a \in {300, 600, 1000}, m \in {0, 200},
        r \in {Undefined, Some(5), Some(60)}, q \in {"low", "high"}}

AnalysisRequests ==
    [fn : {"performGroundwaterAnalysis"}, latitude : {17}, longitude : {78},
     extractionRate : {0, 100, 1000, 5000},
     station : {Undefined, PlainStation, QualityStation},
     distance : {5},
     olderReading : {Undefined, ReadingOf([d \in {0} |-> 12], 0)},
     environmentalData : ExternalDatas]

InitEngine ==
    /\ readingStore \in EngineStores
    /\ call \in AnalysisRequests
    /\ returned = NotCalled
    /\ trendAnalysis = NotCalled
    /\ TrendIdle /\ PredictIdle

PerformGroundwaterAnalysis ==
    /\ call.fn = "performGroundwaterAnalysis"
    /\ ~returned.called
    /\ returned' = [called |-> TRUE,
                    value |-> performGroundwaterAnalysis(call, readingStore)]
    /\ UNCHANGED <<call, trendVars, predictVars, analysisVars>>

NextEngine == PerformGroundwaterAnalysis

SpecEngine == InitEngine /\ [][NextEngine]_vars

(***************************************************************************)
(* Properties of the analysis request (SpecEngine).                        *)
(***************************************************************************)
EngineReturned ==
    call.fn = "performGroundwaterAnalysis" /\ returned.called /\ ~returned.value.threw

Assessment == returned.value.groundwaterAssessment

\* analysisSchema: groundwaterAssessment.sustainability.balance enum
SchemaBalances == {"deficit", "balanced", "surplus"}

\* C14: every sustainability estimate placed in an analysis result has a
\* balance that is one of deficit, balanced or surplus, the only values the
\* analysis record's schema admits.
C14_BalanceInSchema ==
    EngineReturned => Assessment.sustainability.balance \in SchemaBalances

\* C15: the recharge rate handed to calculateSustainability is the number
\* 0.3 times the annual rainfall of the environmental data returned for
\* the location.
C15_RechargeFromRainfall ==
    EngineReturned =>
        Assessment.sustainability.rechargeRate =
            Some((3 * AnnualIn(call.environmentalData)[1]) \div 10)

\* scenario A: 12 monthly readings strictly decreasing from 25 m to 5 m,
\* annual rainfall 300 mm, river at 60 km, low permeability, extraction
\* 5000 L/day
ScenarioA ==
    /\ EngineReturned
    /\ readingStore \in ScenarioAStores
    /\ AnnualIn(call.environmentalData) = Some(300)
    /\ call.environmentalData[1].proximity[1].riverDistance = Some(60)
    /\ call.environmentalData[1].geology[1].permeability = Some("low")
    /\ call.extractionRate = 5000

TypesIn(recommendations) ==
    {recommendations[i].type : i \in 1..Len(recommendations)}

\* the scenario's sustainability estimate: level 5 m, recharge 90 L/day
ScenarioASustainability == calculateSustainability(Some(5), 5000, Some(90))

ScenarioB ==
    /\ EngineReturned
    /\ readingStore = ScenarioBStore
    /\ AnnualIn(call.environmentalData) = Some(1000)
    /\ call.environmentalData[1].proximity[1].riverDistance = Some(5)
    /\ call.environmentalData[1].geology[1].permeability = Some("high")
    /\ call.extractionRate = 1000

\* the scenario's sustainability estimate: level 8 m, recharge 300 L/day
ScenarioBSustainability == calculateSustainability(Some(8), 1000, Some(300))

Encoders ==
    {"getStatusValue", "getTrendValue", "getSignificanceValue",
     "getInfluenceValue", "getPermeabilityValue", "getAquiferTypeValue"}

EncoderLabels ==
    {"critical", "low", "moderate", "good", "excellent",
     "falling", "stable", "rising",
     "not_significant", "marginally_significant", "significant",
     "very_significant", "highly_significant",
     "medium", "high",
     "unconfined", "confined", "semi-confined", "leaky",
     "insufficient_data", "unknown"}

ApplyEncoder(encoder, label) ==
    CASE encoder = "getStatusValue" -> getStatusValue(label)
      [] encoder = "getTrendValue" -> getTrendValue(label)
      [] encoder = "getSignificanceValue" -> getSignificanceValue(label)
      [] encoder = "getInfluenceValue" -> getInfluenceValue(label)
      [] encoder = "getPermeabilityValue" -> getPermeabilityValue(label)
      [] encoder = "getAquiferTypeValue" -> getAquiferTypeValue(label)

InitEncode ==
    /\ call \in [fn : {"encode"}, encoder : Encoders,
                 label : {Undefined} \cup {Some(l) : l \in EncoderLabels}]
    /\ returned = NotCalled
    /\ TrendIdle /\ PredictIdle /\ AnalysisIdle

CallEncoder ==
    /\ call.fn = "encode"
    /\ ~returned.called
    /\ returned' = [called |-> TRUE, value |-> ApplyEncoder(call.encoder, call.label)]
    /\ UNCHANGED <<call, trendVars, predictVars, analysisVars>>

NextEncode == CallEncoder

SpecEncode == InitEncode /\ [][NextEncode]_vars

(***************************************************************************)
(* Properties of the encoders (SpecEncode).                                *)
(***************************************************************************)
\* the codes each encoder is to give its listed labels, and its default
ListedCodes ==
    [getStatusValue |->
         "critical" :> 0 @@ "low" :> 1 @@ "moderate" :> 2 @@ "good" :> 3
         @@ "excellent" :> 4,
     getTrendValue |-> "falling" :> -1 @@ "stable" :> 0 @@ "rising" :> 1,
     getSignificanceValue |->
         "not_significant" :> 0 @@ "marginally_significant" :> 1
         @@ "significant" :> 2 @@ "very_significant" :> 3
         @@ "highly_significant" :> 4,
     getInfluenceValue |-> "low" :> 1 @@ "medium" :> 2 @@ "high" :> 3,
     getPermeabilityValue |-> "low" :> 1 @@ "medium" :> 2 @@ "high" :> 3,
     getAquiferTypeValue |->
         "unconfined" :> 1 @@ "confined" :> 2 @@ "semi-confined" :> 3
         @@ "leaky" :> 4]

DefaultCodes ==
    [getStatusValue |-> 2, getTrendValue |-> 0, getSignificanceValue |-> 0,
     getInfluenceValue |-> 1, getPermeabilityValue |-> 2, getAquiferTypeValue |-> 1]

\* C24: every encoder maps each listed label to its exact integer, and
\* uses its default code only for a label that is absent or not listed.
C24_ExactCodes ==
    (call.fn = "encode" /\ returned.called) =>
        LET listed == ListedCodes[call.encoder]
        IN  returned.value =
                IF IsDefined(call.label) /\ call.label[1] \in DOMAIN listed
                THEN listed[call.label[1]]
                ELSE DefaultCodes[call.encoder]

(***************************************************************************)
(* statisticalAnalysis: detectSeasonality                                  *)
(* The timestamps of a series lie in one non-leap year counted from 1      *)
(* January; monthly means are exact fractions.                             *)
(***************************************************************************)
\* day of the year on which each month 0..11 starts, and the year's end
MonthStart == <<0, 31, 59, 90, 120, 151, 181, 212, 243, 273, 304, 334, 365>>

\* new Date(timestamp).getMonth()
MonthOf(timestamp) ==
    LET day == (timestamp \div SecPerDay) % 365
    IN  CHOOSE m \in 0..11 : MonthStart[m + 1] <= day /\ day < MonthStart[m + 2]

\* fewest observations for a seasonality verdict
MinSeasonalityPoints == 12

\* indexes of the observations of one month
MonthlyData(ts, month) == {k \in 1..Len(ts) : MonthOf(ts[k]) = month}

RECURSIVE SumAt(_, _)
SumAt(d, indexes) ==
    IF indexes = {} THEN 0
    ELSE LET k == CHOOSE x \in indexes : TRUE
         IN  d[k] + SumAt(d, indexes \ {k})

\* simpleStats.mean of the month's values
MonthlyMean(d, ts, month) ==
    Frac(SumAt(d, MonthlyData(ts, month)), Cardinality(MonthlyData(ts, month)))

FracMul(p, q) == Frac(p[1] * q[1], p[2] * q[2])

RECURSIVE FracSum(_, _)
FracSum(f, keys) ==
    IF keys = <<>> THEN Zero ELSE FracAdd(f[Head(keys)], FracSum(f, Tail(keys)))

\* cv > 0.1 for cv = population standard deviation / mean of the means:
\* 100 * (k * sum of squares - square of sum) > square of sum
CvAboveTenth(means, keys) ==
    LET k == Len(keys)
        sum == FracSum(means, keys)
        squares == FracSum([m \in DOMAIN means |-> FracMul(means[m], means[m])], keys)
        sumSquared == FracMul(sum, sum)
        spread == FracAdd(FracMul(<<k, 1>>, squares), FracMul(<<-1, 1>>, sumSquared))
    IN  /\ FracLess(Zero, sum)
        /\ FracLess(sumSquared, FracMul(<<100, 1>>, spread))

\* keys.reduce((a, b) => means[a] > means[b] ? a : b), kept the value so
\* far; with "<" in place of ">" when the lowest mean is looked for
RECURSIVE ReduceKeys(_, _, _, _)
ReduceKeys(means, comparison, kept, rest) ==
    IF rest = <<>> THEN kept
    ELSE LET b == Head(rest)
             keepFirst == IF comparison = ">" THEN FracLess(means[b], means[kept])
                          ELSE FracLess(means[kept], means[b])
         IN  ReduceKeys(means, comparison, IF keepFirst THEN kept ELSE b, Tail(rest))

detectSeasonality(d, ts) ==
    IF Len(d) < MinSeasonalityPoints THEN [verdict |-> FALSE]
    ELSE LET months == {MonthOf(ts[k]) : k \in 1..Len(ts)}
             \* Object.keys of integer-like keys: ascending numeric order
             keys == Ascending(months)
             monthlyMeans == [m \in months |-> MonthlyMean(d, ts, m)]
         IN  [verdict |-> TRUE,
              seasonal |-> CvAboveTenth(monthlyMeans, keys),
              monthlyMeans |-> monthlyMeans,
              peakMonth |-> ReduceKeys(monthlyMeans, ">", Head(keys), Tail(keys)),
              lowMonth |-> ReduceKeys(monthlyMeans, "<", Head(keys), Tail(keys))]

(***************************************************************************)
(* The seasonality estimator called on one series.                         *)
(***************************************************************************)
MaxMonth == 2      \* the readings fall in the months 0..MaxMonth

\* the readings of one month: count of them, on consecutive days, the first
\* half at one level and the second half at another
MonthCounts == {0, 4, 6}
SeasonLevels == {1, 2}

MonthReadings(month, count, first, second) ==
    [k \in 1..count |->
        [timestamp |-> (MonthStart[month + 1] + k - 1) * SecPerDay,
         waterLevel |-> IF 2 * k <= count THEN first ELSE second]]

RECURSIVE SeriesOf(_, _)
SeriesOf(plan, month) ==
    IF month > MaxMonth THEN <<>>
    ELSE MonthReadings(month, plan[month].count, plan[month].first, plan[month].second)
         \o SeriesOf(plan, month + 1)

Reversed(s) == [k \in 1..Len(s) |-> s[Len(s) + 1 - k]]

InitSeason ==
    /\ \E plan \in [0..MaxMonth -> [count : MonthCounts, first : SeasonLevels,
                                    second : SeasonLevels]] :
       \E newestFirst \in BOOLEAN :
          LET series == IF newestFirst THEN Reversed(SeriesOf(plan, 0))
                        ELSE SeriesOf(plan, 0)
          IN  call = [fn |-> "detectSeasonality",
                      data |-> [k \in 1..Len(series) |-> series[k].waterLevel],
                      timestamps |-> [k \in 1..Len(series) |-> series[k].timestamp]]
    /\ returned = NotCalled
    /\ TrendIdle /\ PredictIdle /\ AnalysisIdle

CallDetectSeasonality ==
    /\ call.fn = "detectSeasonality"
    /\ ~returned.called
    /\ returned' = [called |-> TRUE,
                    value |-> detectSeasonality(call.data, call.timestamps)]
    /\ UNCHANGED <<call, trendVars, predictVars, analysisVars>>

NextSeason == CallDetectSeasonality

SpecSeason == InitSeason /\ [][NextSeason]_vars

(***************************************************************************)
(* Properties of the seasonality estimator (SpecSeason).                   *)
(***************************************************************************)
SeasonReturned == call.fn = "detectSeasonality" /\ returned.called

\* the lowest of the months with the maximum, resp. minimum, mean
LowestPeak(means) ==
    Min({m \in DOMAIN means : \A o \in DOMAIN means : ~FracLess(means[m], means[o])})
LowestLow(means) ==
    Min({m \in DOMAIN means : \A o \in DOMAIN means : ~FracLess(means[o], means[m])})

\* C26: no verdict for fewer than 12 observations; otherwise peakMonth is
\* the month of the maximum monthly mean and lowMonth the month of the
\* minimum, the lowest month index when several months share the extreme.
C26_LowestMonthOnTies ==
    SeasonReturned =>
        LET value == returned.value
        IN  /\ value.verdict <=> Len(call.data) >= 12
            /\ value.verdict =>
                   /\ value.peakMonth = LowestPeak(value.monthlyMeans)
                   /\ value.lowMonth = LowestLow(value.monthlyMeans)

====
